---- MODULE Spec2Model ----
(***************************************************************************)
(* Budget Sakkie: the collector's field sanitisers and batch validator     *)
(* (scripts/data_extractor.py) and the aggregator's CSV loading and        *)
(* best-price selection (scripts/data_integration.py).                     *)
(*                                                                         *)
(* Text is a sequence of one-character strings, so that lower(), strip(),  *)
(* substring tests and the price regular expression are computed           *)
(* character by character, as Python computes them.  Prices are counted in *)
(* cents (19.99 is 1999): every price of the model has at most two         *)
(* decimals, so the float arithmetic of the code is exact on them.         *)
(***************************************************************************)
EXTENDS Integers, Sequences, FiniteSets, TLC

VARIABLES
    pc,                   \* position of the operation under check
    availability_text,    \* argument of parse_availability
    availability_status,  \* its return value
    price_text,           \* argument of sanitize_price
    price_value,          \* its return value (cents, or NoValue for None)
    products,             \* argument of validate_data_integrity: a batch of Products
    is_valid,             \* first component of its result
    errors,               \* second component of its result
    csv_rows,             \* the rows csv.DictReader yields to load_csv_data
    all_products,         \* the list load_csv_data returns / find_best_prices reads
    best_prices,          \* the dict find_best_prices returns, in insertion order
    updated_data,         \* what generate_mock_data_update returns: products and prices
    report,               \* the best_deals list of generate_integration_report
    session,              \* GroceryDataExtractor.session: "none", "open" or "closed"
    retailer_idx,         \* position in self.retailers of the retailer processed next
    extracted,            \* the local all_products of extract_all_data
    scraped,              \* what scrape_retailer_products returned, per retailer processed
    price_files,          \* data/<retailer>/<date>_prices.csv: retailer -> date -> content
    error_files,          \* data/<retailer>/errors_<date>.txt: retailer -> date -> content
    today,                \* the date datetime.now() gives
    saves,                \* calls of save_to_csv made so far
    raised,               \* the step whose exception left extract_all_data, or "none"
    exit_code,            \* what data_extractor.main returns
    now,                  \* time.time(), in seconds
    last_request_time,    \* RateLimiter.last_request_time
    slept,                \* how long the last wait_if_needed slept
    fetch_start,          \* when the last retailer fetch started
    fetch_end,            \* when the retailer fetch before the last one ended
    extraction_result,    \* run_complete_pipeline: what extract_main returned
    integration_result,   \* run_complete_pipeline: what integrate_main returned
    pipeline_result       \* what run_complete_pipeline returns

fnVars == <<availability_text, availability_status, price_text, price_value,
            products, is_valid, errors>>
aggVars == <<csv_rows, all_products, best_prices>>
adapterVars == <<updated_data, report>>
collectVars == <<session, retailer_idx, extracted, scraped, error_files, raised, exit_code>>
fileVars == <<price_files, today, saves>>
rateVars == <<now, last_request_time, slept, fetch_start, fetch_end>>
pipeVars == <<extraction_result, integration_result, pipeline_result>>

vars == <<pc, fnVars, aggVars, adapterVars, collectVars, fileVars, rateVars, pipeVars>>

\* An optional float, in cents: <<>> is Python's None, <<c>> is the float c / 100.
NoValue == <<>>
FloatOf(c) == <<c>>
CentsOf(v) == v[1]

\* A string variable that holds no result yet.
Unset == "unset"

\* An exit status: <<>> while the program runs, <<n>> once it has returned n.
Pending == <<>>
Returned(n) == <<n>>

(***************************************************************************)
(* Text helpers                                                            *)
(***************************************************************************)

UpperCase == <<"A","B","C","D","E","F","G","H","I","J","K","L","M",
               "N","O","P","Q","R","S","T","U","V","W","X","Y","Z">>
LowerCase == <<"a","b","c","d","e","f","g","h","i","j","k","l","m",
               "n","o","p","q","r","s","t","u","v","w","x","y","z">>

Digits == <<"0","1","2","3","4","5","6","7","8","9">>

IsDigit(c) == \E d \in DOMAIN Digits : Digits[d] = c

\* The characters str.strip() and the regex class \s remove or match.
IsSpace(c) == c \in {" ", "\t", "\n"}

\* str.lower() on one character.
LowerChar(c) ==
    IF \E k \in DOMAIN UpperCase : UpperCase[k] = c
    THEN LowerCase[CHOOSE k \in DOMAIN UpperCase : UpperCase[k] = c]
    ELSE c

\* str.lower()
Lower(s) == [k \in DOMAIN s |-> LowerChar(s[k])]

\* str.strip(): drop the leading and the trailing whitespace.
Strip(s) ==
    LET keep == {k \in DOMAIN s : ~IsSpace(s[k])}
    IN  IF keep = {} THEN <<>>
        ELSE LET lo == CHOOSE k \in keep : \A m \in keep : k <= m
                 hi == CHOOSE k \in keep : \A m \in keep : k >= m
             IN  SubSeq(s, lo, hi)

\* Python's `term in text` on strings: term occurs as a contiguous substring.
Contains(text, term) ==
    \E k \in 0..(Len(text) - Len(term)) :
        \A m \in 1..Len(term) : text[k + m] = term[m]

\* any(term in text for term in terms)
AnyTermIn(text, terms) == \E t \in DOMAIN terms : Contains(text, terms[t])

\* All sequences over S of length 0..n.
RECURSIVE SeqsUpTo(_, _)
SeqsUpTo(S, n) ==
    IF n = 0 THEN {<<>>}
    ELSE LET shorter == SeqsUpTo(S, n - 1)
         IN  shorter \cup {Append(s, c) : s \in {t \in shorter : Len(t) = n - 1}, c \in S}

(***************************************************************************)
(* GroceryDataExtractor.parse_availability                                 *)
(***************************************************************************)

InStockTerms ==
    << <<"i","n"," ","s","t","o","c","k">>,
       <<"a","v","a","i","l","a","b","l","e">>,
       <<"y","e","s">> >>

LowStockTerms ==
    << <<"l","o","w"," ","s","t","o","c","k">>,
       <<"l","i","m","i","t","e","d">>,
       <<"f","e","w"," ","l","e","f","t">> >>

OutOfStockTerms ==
    << <<"o","u","t"," ","o","f"," ","s","t","o","c","k">>,
       <<"u","n","a","v","a","i","l","a","b","l","e">>,
       <<"s","o","l","d"," ","o","u","t">> >>

AvailabilityEnum == {"in_stock", "low_stock", "out_of_stock", "unknown"}

\* The function with its first guard dropped: an empty text falls through to the default.
parse_availability_no_empty_guard(text_in) ==
    LET text == Lower(text_in)
    IN  IF AnyTermIn(text, InStockTerms) THEN "in_stock"
        ELSE IF AnyTermIn(text, LowStockTerms) THEN "low_stock"
        ELSE IF AnyTermIn(text, OutOfStockTerms) THEN "out_of_stock"
        ELSE "in_stock"

parse_availability(text_in) ==
    IF text_in = <<>> THEN "unknown"
    ELSE LET text == Lower(text_in)
         IN  IF AnyTermIn(text, InStockTerms) THEN "in_stock"
             ELSE IF AnyTermIn(text, LowStockTerms) THEN "low_stock"
             ELSE IF AnyTermIn(text, OutOfStockTerms) THEN "out_of_stock"
             ELSE "in_stock"

\* Length bound of the exhaustively enumerated availability texts.
MaxAvailLen == 3

AvailChars == {"y", "e", "s", "Y", " ", "n"}

\* Retailer-style availability texts, as the pages print them.
AvailSamples ==
    { <<"I","n"," ","S","t","o","c","k">>,
      <<"A","v","a","i","l","a","b","l","e">>,
      <<"L","o","w"," ","s","t","o","c","k">>,
      <<"L","i","m","i","t","e","d">>,
      <<"O","n","l","y"," ","f","e","w"," ","l","e","f","t">>,
      <<"O","u","t"," ","o","f"," ","s","t","o","c","k">>,
      <<"U","n","a","v","a","i","l","a","b","l","e">>,
      <<"S","O","L","D"," ","O","U","T">>,
      <<"N","/","A">>,
      <<"Y","e","s",","," ","l","i","m","i","t","e","d">> }

AvailabilityTexts ==
    SeqsUpTo(AvailChars, MaxAvailLen) \cup AvailSamples
        \cup {InStockTerms[k] : k \in DOMAIN InStockTerms}
        \cup {LowStockTerms[k] : k \in DOMAIN LowStockTerms}
        \cup {OutOfStockTerms[k] : k \in DOMAIN OutOfStockTerms}

\* The variables of the other operations, at rest.
IdlePrice == price_text = <<>> /\ price_value = NoValue
IdleValid == products = <<>> /\ is_valid = FALSE /\ errors = <<>>
IdleAgg   == csv_rows = <<>> /\ all_products = <<>> /\ best_prices = <<>>
IdleAvail == availability_text = <<>> /\ availability_status = Unset
IdleAdapter == updated_data = <<>> /\ report = <<>>
IdleCollect ==
    /\ session = "none" /\ retailer_idx = 1 /\ extracted = <<>> /\ scraped = <<>>
    /\ error_files = <<>> /\ raised = "none" /\ exit_code = Pending
IdleFiles == price_files = <<>> /\ today = 1 /\ saves = 0
IdleRate ==
    /\ now = 0 /\ last_request_time = 0 /\ slept = 0 /\ fetch_start = 0 /\ fetch_end = 0
IdlePipe ==
    /\ extraction_result = Pending /\ integration_result = Pending
    /\ pipeline_result = Pending

InitAvail ==
    /\ pc = "call"
    /\ availability_text \in AvailabilityTexts
    /\ availability_status = Unset
    /\ IdlePrice /\ IdleValid /\ IdleAgg
    /\ IdleAdapter /\ IdleCollect /\ IdleFiles /\ IdleRate /\ IdlePipe

ParseAvailability ==
    /\ pc = "call"
    /\ availability_status' = parse_availability(availability_text)
    /\ pc' = "done"
    /\ UNCHANGED <<availability_text, price_text, price_value, products, is_valid,
                   errors, csv_rows, all_products, best_prices>>
    /\ UNCHANGED <<adapterVars, collectVars, fileVars, rateVars, pipeVars>>

NextAvail == ParseAvailability

SpecAvail == InitAvail /\ [][NextAvail]_vars

\* C7 as stated: total over the four values, "low stock" maps to low_stock, and an
\* empty text or a text without any keyword maps to in_stock.
NoKeyword(text) ==
    /\ ~AnyTermIn(Lower(text), InStockTerms)
    /\ ~AnyTermIn(Lower(text), LowStockTerms)
    /\ ~AnyTermIn(Lower(text), OutOfStockTerms)

C8_KeywordRule ==
    pc = "done" =>
        LET text == Lower(availability_text)
        IN  /\ (AnyTermIn(text, InStockTerms) => availability_status = "in_stock")
            /\ (AnyTermIn(text, LowStockTerms) => availability_status = "low_stock")
            /\ (AnyTermIn(text, OutOfStockTerms) => availability_status = "out_of_stock")

(***************************************************************************)
(* float() and GroceryDataExtractor.sanitize_price                         *)
(***************************************************************************)

\* float() raising ValueError, where a FloatOf value is returned otherwise.
ValueError == <<>>

DigitOf(c) == (CHOOSE d \in DOMAIN Digits : Digits[d] = c) - 1

\* The value of a run of decimal digits.
RECURSIVE DigitsValue(_)
DigitsValue(ds) ==
    IF ds = <<>> THEN 0
    ELSE 10 * DigitsValue(SubSeq(ds, 1, Len(ds) - 1)) + DigitOf(ds[Len(ds)])

AllDigits(ds) == \A k \in DOMAIN ds : IsDigit(ds[k])

\* float(text): FloatOf the value in cents, for the decimal literals the model draws: surrounding
\* whitespace, an optional sign, one or more digits and an optional fraction of at
\* most two digits.  Any other text over the model's characters is not a float
\* literal and raises ValueError.  (Exponents, inf, nan, underscores and longer
\* fractions are never drawn.)
Float(text) ==
    LET t        == Strip(text)
        signed   == t # <<>> /\ t[1] \in {"-", "+"}
        body     == IF signed THEN SubSeq(t, 2, Len(t)) ELSE t
        dots     == {k \in DOMAIN body : body[k] = "."}
        intpart  == IF dots = {} THEN body
                    ELSE SubSeq(body, 1, (CHOOSE k \in dots : TRUE) - 1)
        fracpart == IF dots = {} THEN <<>>
                    ELSE SubSeq(body, (CHOOSE k \in dots : TRUE) + 1, Len(body))
        wellformed ==
            /\ Cardinality(dots) <= 1
            /\ intpart # <<>> /\ AllDigits(intpart)
            /\ Len(fracpart) <= 2 /\ AllDigits(fracpart)
        magnitude ==
            100 * DigitsValue(intpart)
                + (IF Len(fracpart) = 1 THEN 10 * DigitsValue(fracpart)
                   ELSE DigitsValue(fracpart))
    IN  IF ~wellformed THEN ValueError
        ELSE IF signed /\ t[1] = "-" THEN FloatOf(0 - magnitude) ELSE FloatOf(magnitude)

\* price_text.replace(',', '')
StripCommas(s) == SelectSeq(s, LAMBDA c : c # ",")

\* Greedy \s* from position j: the first position at or after j that holds no whitespace.
SkipSpaces(s, j) ==
    CHOOSE k \in j..(Len(s) + 1) :
        /\ \A m \in j..(k - 1) : IsSpace(s[m])
        /\ (k <= Len(s) => ~IsSpace(s[k]))

\* Greedy \d+ from a digit at position k: the last position of the run.
DigitRunEnd(s, k) ==
    CHOOSE m \in k..Len(s) :
        /\ \A n \in k..m : IsDigit(s[n])
        /\ (m < Len(s) => ~IsDigit(s[m + 1]))

\* The capture group (\d+(?:\.\d{2})?) starting at the digit at position k.
CaptureGroup(s, k) ==
    LET m == DigitRunEnd(s, k)
    IN  IF /\ m + 3 <= Len(s)
           /\ s[m + 1] = "."
           /\ IsDigit(s[m + 2])
           /\ IsDigit(s[m + 3])
        THEN SubSeq(s, k, m + 3)
        ELSE SubSeq(s, k, m)

\* \s*(\d+...) from position j: the start of the capture group, or 0 when it fails.
SpacesThenDigits(s, j) ==
    LET k == SkipSpaces(s, j)
    IN  IF k <= Len(s) /\ IsDigit(s[k]) THEN k ELSE 0

\* The pattern R?\s*(\d+(?:\.\d{2})?) anchored at position i: R? first tries to
\* consume an "R" and falls back to matching nothing.
MatchAt(s, i) ==
    IF s[i] = "R" /\ SpacesThenDigits(s, i + 1) # 0
    THEN SpacesThenDigits(s, i + 1)
    ELSE SpacesThenDigits(s, i)

\* re.search: the leftmost position where the pattern matches; the result is
\* group(1), or NoValue when there is no match.
PriceSearch(s) ==
    LET hits == {i \in DOMAIN s : MatchAt(s, i) # 0}
    IN  IF hits = {} THEN NoValue
        ELSE CaptureGroup(s, MatchAt(s, CHOOSE i \in hits : \A h \in hits : i <= h))

\* The function without the comma removal: "1,234.50" stops at the comma.
sanitize_price_keep_commas(text) ==
    IF text = <<>> THEN NoValue
    ELSE LET g == PriceSearch(text)
         IN  IF g = NoValue THEN NoValue
             ELSE IF Float(g) = ValueError THEN NoValue ELSE Float(g)

sanitize_price(text) ==
    IF text = <<>> THEN NoValue
    ELSE LET g == PriceSearch(StripCommas(text))
         IN  IF g = NoValue THEN NoValue
             ELSE IF Float(g) = ValueError THEN NoValue ELSE Float(g)

\* Length bound of the exhaustively enumerated price texts.
MaxPriceLen == 4

PriceChars == {"R", " ", "2", "9", ".", ",", "a"}

PriceSamples ==
    { <<"R","2","4",".","9","9">>,
      <<"C","a","l","l"," ","f","o","r"," ","p","r","i","c","e">>,
      <<"R"," ","1",",","2","3","4",".","5","0">>,
      <<"N","o","w"," ","R","9",".","9","9"," ","w","a","s"," ","R","1","2">>,
      <<"2","4",".","9","9","9">> }

PriceTexts == SeqsUpTo(PriceChars, MaxPriceLen) \cup PriceSamples

InitPrice ==
    /\ pc = "call"
    /\ price_text \in PriceTexts
    /\ price_value = NoValue
    /\ IdleAvail /\ IdleValid /\ IdleAgg
    /\ IdleAdapter /\ IdleCollect /\ IdleFiles /\ IdleRate /\ IdlePipe

SanitizePrice ==
    /\ pc = "call"
    /\ price_value' = sanitize_price(price_text)
    /\ pc' = "done"
    /\ UNCHANGED <<availability_text, availability_status, price_text, products,
                   is_valid, errors, csv_rows, all_products, best_prices>>
    /\ UNCHANGED <<adapterVars, collectVars, fileVars, rateVars, pipeVars>>

NextPrice == SanitizePrice

SpecPrice == InitPrice /\ [][NextPrice]_vars

\* The first numeric token of a text: the maximal digit run that starts at the first
\* digit once the thousands separators are dropped, with the two decimals that
\* follow it, if two digits follow a point.
FirstTokenCents(text) ==
    LET s     == StripCommas(text)
        first == CHOOSE k \in DOMAIN s :
                    IsDigit(s[k]) /\ \A m \in 1..(k - 1) : ~IsDigit(s[m])
        last  == CHOOSE m \in first..Len(s) :
                    /\ \A n \in first..m : IsDigit(s[n])
                    /\ (m = Len(s) \/ ~IsDigit(s[m + 1]))
        cents == IF /\ last + 3 <= Len(s) /\ s[last + 1] = "."
                    /\ IsDigit(s[last + 2]) /\ IsDigit(s[last + 3])
                 THEN 10 * DigitOf(s[last + 2]) + DigitOf(s[last + 3])
                 ELSE 0
    IN  100 * DigitsValue(SubSeq(s, first, last)) + cents

HasDigit(text) == \E k \in DOMAIN text : IsDigit(text[k])

\* C9: sanitize_price returns None exactly when the text is empty or holds no digit,
\* and otherwise the value of the first numeric token ("R24.99" gives 24.99,
\* "Call for price" gives None).
C9_SanitizePrice ==
    pc = "done" =>
        /\ (price_value = NoValue <=> ~HasDigit(price_text))
        /\ (HasDigit(price_text) => price_value = FloatOf(FirstTokenCents(price_text)))
        /\ (price_text = <<"R","2","4",".","9","9">> => price_value = FloatOf(2499))

C9_Witness ==
    /\ pc = "done"
    /\ price_text = <<"R","2","4",".","9","9">>
    /\ price_value = FloatOf(2499)

(***************************************************************************)
(* GroceryDataExtractor.validate_data_integrity                            *)
(***************************************************************************)

\* Python truthiness of an optional float: None and 0.0 are falsy.
Truthy(price) == price # NoValue /\ CentsOf(price) # 0

\* The price check as one comparison short: a negative price passes.
InvalidPrice_no_sign_check(product) == ~Truthy(product.current_price)

\* `not product.current_price or product.current_price <= 0`
InvalidPrice(product) ==
    \/ ~Truthy(product.current_price)
    \/ CentsOf(product.current_price) <= 0

\* The errors one product appends, in the order of the four checks; i is the
\* zero-based position that enumerate() gives the product.
ProductErrors(product, i) ==
    (IF product.product_name = <<>> THEN << <<i, "Missing product name">> >> ELSE <<>>)
    \o (IF InvalidPrice(product) THEN << <<i, "Invalid price">> >> ELSE <<>>)
    \o (IF product.retailer = "" THEN << <<i, "Missing retailer">> >> ELSE <<>>)
    \o (IF product.availability_status \notin AvailabilityEnum
        THEN << <<i, "Invalid availability status">> >> ELSE <<>>)

\* The loop over enumerate(products), from the product at position n (one-based) on.
RECURSIVE CollectErrors(_, _)
CollectErrors(batch, n) ==
    IF n > Len(batch) THEN <<>>
    ELSE ProductErrors(batch[n], n - 1) \o CollectErrors(batch, n + 1)

\* The pair (is_valid, errors) the function returns.
validate_data_integrity(batch) ==
    LET errs == CollectErrors(batch, 1)
    IN  [is_valid |-> Len(errs) = 0, errors |-> errs]

\* Largest batch handed to the validator.
MaxBatch == 2

ProductValues ==
    [ product_name        : {<<>>, <<"B","a">>},
      current_price       : {NoValue, FloatOf(0), FloatOf(0 - 500), FloatOf(1999)},
      retailer            : {"", "Checkers"},
      availability_status : {"in_stock", "unknown", "sold"} ]

InitValid ==
    /\ pc = "call"
    /\ products \in SeqsUpTo(ProductValues, MaxBatch)
    /\ is_valid = FALSE
    /\ errors = <<>>
    /\ IdleAvail /\ IdlePrice /\ IdleAgg
    /\ IdleAdapter /\ IdleCollect /\ IdleFiles /\ IdleRate /\ IdlePipe

ValidateDataIntegrity ==
    /\ pc = "call"
    /\ is_valid' = validate_data_integrity(products).is_valid
    /\ errors' = validate_data_integrity(products).errors
    /\ pc' = "done"
    /\ UNCHANGED <<availability_text, availability_status, price_text, price_value,
                   products, csv_rows, all_products, best_prices>>
    /\ UNCHANGED <<adapterVars, collectVars, fileVars, rateVars, pipeVars>>

NextValid == ValidateDataIntegrity

SpecValid == InitValid /\ [][NextValid]_vars

\* The four checks of the validator's contract, stated on one product.
NameOk(product)     == Len(product.product_name) > 0
PriceOk(product)    == product.current_price # NoValue /\ CentsOf(product.current_price) > 0
RetailerOk(product) == product.retailer # ""
StatusOk(product)   ==
    product.availability_status \in {"in_stock", "low_stock", "out_of_stock", "unknown"}

\* The violated checks of the batch, as (zero-based position, check) pairs.
Violations ==
    {<<k - 1, "Missing product name">> : k \in {j \in DOMAIN products : ~NameOk(products[j])}}
    \cup {<<k - 1, "Invalid price">> : k \in {j \in DOMAIN products : ~PriceOk(products[j])}}
    \cup {<<k - 1, "Missing retailer">> : k \in {j \in DOMAIN products : ~RetailerOk(products[j])}}
    \cup {<<k - 1, "Invalid availability status">> :
              k \in {j \in DOMAIN products : ~StatusOk(products[j])}}

\* C10: valid holds exactly when errors is empty, errors is empty exactly when every
\* product passes the four checks, and every violated check of every product
\* contributes exactly one error.
C10_ValidateContract ==
    pc = "done" =>
        /\ (is_valid <=> errors = <<>>)
        /\ (errors = <<>> <=>
                \A k \in DOMAIN products :
                    /\ NameOk(products[k]) /\ PriceOk(products[k])
                    /\ RetailerOk(products[k]) /\ StatusOk(products[k]))
        /\ {errors[k] : k \in DOMAIN errors} = Violations
        /\ Len(errors) = Cardinality(Violations)

C10_Witness ==
    /\ pc = "done"
    /\ Len(products) = 2
    /\ ~is_valid
    /\ Len(errors) = 3
    /\ PriceOk(products[1]) /\ ~PriceOk(products[2])

(***************************************************************************)
(* DataIntegrator.load_csv_data and DataIntegrator.find_best_prices        *)
(*                                                                         *)
(* A record is referred to by its position in all_products: the groups and *)
(* the results of the code hold references to the dicts of that list, not  *)
(* copies, and the position is what tells two equal dicts apart.           *)
(***************************************************************************)

\* One row: float(row['current_price']), and 0.0 when that raises.
LoadRow(row) ==
    [row EXCEPT !.current_price =
        IF Float(row.current_price) = ValueError THEN FloatOf(0)
        ELSE Float(row.current_price)]

\* The products list built from the rows of the reader, in file order.
load_csv_data(rows) == [k \in DOMAIN rows |-> LoadRow(rows[k])]

\* The grouping key taken as the lowercased name, whitespace kept.
Normalize_no_strip(name) == Lower(name)

\* product['product_name'].lower().strip()
Normalize(name) == Strip(Lower(name))

\* The dict product_groups as its items in insertion order.
HasKey(groups, key) == \E g \in DOMAIN groups : groups[g].key = key

\* The grouping step with a new member put at the head of its list.
AddToGroup_prepend(groups, key, n) ==
    IF HasKey(groups, key)
    THEN [g \in DOMAIN groups |->
            IF groups[g].key = key
            THEN [groups[g] EXCEPT !.members = <<n>> \o @]
            ELSE groups[g]]
    ELSE Append(groups, [key |-> key, members |-> <<n>>])

\* One pass of the grouping loop: create the key's list on first sight, then append.
AddToGroup(groups, key, n) ==
    IF HasKey(groups, key)
    THEN [g \in DOMAIN groups |->
            IF groups[g].key = key
            THEN [groups[g] EXCEPT !.members = Append(@, n)]
            ELSE groups[g]]
    ELSE Append(groups, [key |-> key, members |-> <<n>>])

\* The grouping loop over all_products from position n on.  Before pass n the dict
\* holds at most n - 1 keys, so the second test never decides; it has the dict of a
\* pass evaluated when the pass ends, as the loop does, not when the loop has ended.
RECURSIVE GroupFrom(_, _, _)
GroupFrom(ap, n, groups) ==
    IF n > Len(ap) \/ Len(groups) >= n THEN groups
    ELSE GroupFrom(ap, n + 1, AddToGroup(groups, Normalize(ap[n].product_name), n))

PriceAt(ap, n) == CentsOf(ap[n].current_price)

\* min() replacing its candidate on a tie as well: the last minimum wins.
Replaces_on_tie(ap, candidate, best) == PriceAt(ap, candidate) <= PriceAt(ap, best)

\* min() replaces its current best only by a strictly smaller key.
Replaces(ap, candidate, best) == PriceAt(ap, candidate) < PriceAt(ap, best)

\* min(products, key=lambda p: p['current_price']), scanning members from k on.
RECURSIVE MinFrom(_, _, _, _)
MinFrom(ap, members, k, best) ==
    IF k > Len(members) THEN best
    ELSE MinFrom(ap, members, k + 1,
                 IF Replaces(ap, members[k], best) THEN members[k] ELSE best)

\* The price list taken without the filter on the sign.
GroupPrices_unfiltered(ap, members) == [k \in DOMAIN members |-> PriceAt(ap, members[k])]

\* [p['current_price'] for p in products if p['current_price'] > 0]
GroupPrices(ap, members) ==
    SelectSeq([k \in DOMAIN members |-> PriceAt(ap, members[k])], LAMBDA c : c > 0)

\* max() and min() of a non-empty list of numbers.
MaxOf(prices) == CHOOSE c \in {prices[k] : k \in DOMAIN prices} :
                    \A k \in DOMAIN prices : c >= prices[k]
MinOf(prices) == CHOOSE c \in {prices[k] : k \in DOMAIN prices} :
                    \A k \in DOMAIN prices : c <= prices[k]

\* The value stored under one key of best_prices.
BestPriceEntry(ap, group) ==
    LET prices == GroupPrices(ap, group.members)
    IN  [ key          |-> group.key,
          best_product |-> MinFrom(ap, group.members, 2, group.members[1]),
          all_prices   |-> group.members,
          savings      |-> IF Len(prices) > 1 THEN MaxOf(prices) - MinOf(prices) ELSE 0,
          price_range  |-> [ min |-> IF prices # <<>> THEN MinOf(prices) ELSE 0,
                             max |-> IF prices # <<>> THEN MaxOf(prices) ELSE 0 ] ]

\* The dict best_prices as its items in insertion order; `if not products: continue`
\* skips an empty group.
find_best_prices(ap) ==
    LET product_groups == GroupFrom(ap, 1, <<>>)
        filled == SelectSeq(product_groups, LAMBDA g : g.members # <<>>)
    IN  [g \in DOMAIN filled |-> BestPriceEntry(ap, filled[g])]

\* Largest number of rows in the merged input.
MaxProducts == 3

ProductNames == { <<"B","a">>, <<" ","b","A"," ">>, <<"M","i">> }

\* The current_price column as written in a CSV file.
PriceColumnTexts ==
    { <<"1","9",".","9","9">>, <<"2","4",".","9","9">>, <<"2","6",".","9","9">>,
      <<>>, <<"-","5">> }

CsvRowValues == [product_name : ProductNames, current_price : PriceColumnTexts]

InitAgg ==
    /\ pc = "start"
    /\ csv_rows \in SeqsUpTo(CsvRowValues, MaxProducts)
    /\ all_products = <<>>
    /\ best_prices = <<>>
    /\ IdleAvail /\ IdlePrice /\ IdleValid
    /\ IdleAdapter /\ IdleCollect /\ IdleFiles /\ IdleRate /\ IdlePipe

LoadCsvData ==
    /\ pc = "start"
    /\ all_products' = load_csv_data(csv_rows)
    /\ pc' = "loaded"
    /\ UNCHANGED <<availability_text, availability_status, price_text, price_value,
                   products, is_valid, errors, csv_rows, best_prices>>
    /\ UNCHANGED <<adapterVars, collectVars, fileVars, rateVars, pipeVars>>

FindBestPrices ==
    /\ pc = "loaded"
    /\ best_prices' = find_best_prices(all_products)
    /\ pc' = "aggregated"
    /\ UNCHANGED <<availability_text, availability_status, price_text, price_value,
                   products, is_valid, errors, csv_rows, all_products>>
    /\ UNCHANGED <<adapterVars, collectVars, fileVars, rateVars, pipeVars>>

NextAgg == LoadCsvData \/ FindBestPrices

SpecAgg == InitAgg /\ [][NextAgg]_vars

\* The normalized product name of the contract: trimmed and lowercased.
NameKey(name) == Lower(Strip(name))

\* The positions of the input whose name normalizes to key.
Sharing(key) == {k \in DOMAIN all_products : NameKey(all_products[k].product_name) = key}

Members(g) == {best_prices[g].all_prices[j] : j \in DOMAIN best_prices[g].all_prices}

Price(k) == CentsOf(all_products[k].current_price)

\* C1: in every group best_record is a member with the minimum current_price over
\* all members, and among the members at that price it is the first of the input.
C1_BestRecordIsFirstMinimum ==
    pc = "aggregated" =>
        \A g \in DOMAIN best_prices :
            LET best == best_prices[g].best_product
            IN  /\ best \in Members(g)
                /\ \A m \in Members(g) : Price(best) <= Price(m)
                /\ \A m \in Members(g) : Price(m) = Price(best) => best <= m

C1_Witness ==
    /\ pc = "aggregated"
    /\ \E g \in DOMAIN best_prices :
         \E m \in Members(g) :
            /\ m > best_prices[g].best_product
            /\ Price(m) = Price(best_prices[g].best_product)
            /\ \E n \in Members(g) : n < best_prices[g].best_product

\* The members of group g whose price is above zero.
Priced(g) == {m \in Members(g) : Price(m) > 0}

\* C2: savings and price_range come from the members priced above zero only: with
\* two or more of them savings is their maximum minus their minimum and price_range
\* is {min, max} of them; with fewer than two savings is 0 and price_range.min equals
\* price_range.max.  Prices [19.99, 24.99, 26.99] give 7.00 and {19.99, 26.99}.
C2_SavingsFromPositivePrices ==
    pc = "aggregated" =>
        \A g \in DOMAIN best_prices :
            LET e  == best_prices[g]
                hi == CHOOSE m \in Priced(g) : \A n \in Priced(g) : Price(m) >= Price(n)
                lo == CHOOSE m \in Priced(g) : \A n \in Priced(g) : Price(m) <= Price(n)
            IN  /\ Cardinality(Priced(g)) >= 2 =>
                      /\ e.savings = Price(hi) - Price(lo)
                      /\ e.price_range = [min |-> Price(lo), max |-> Price(hi)]
                /\ Cardinality(Priced(g)) < 2 =>
                      /\ e.savings = 0
                      /\ e.price_range.min = e.price_range.max
                /\ [j \in DOMAIN e.all_prices |-> Price(e.all_prices[j])] = <<1999, 2499, 2699>>
                      => /\ e.savings = 700
                         /\ e.price_range = [min |-> 1999, max |-> 2699]

C2_Witness ==
    /\ pc = "aggregated"
    /\ \E g \in DOMAIN best_prices :
         /\ [j \in DOMAIN best_prices[g].all_prices |-> Price(best_prices[g].all_prices[j])]
               = <<1999, 2499, 2699>>
         /\ best_prices[g].savings = 700
         /\ best_prices[g].price_range = [min |-> 1999, max |-> 2699]

\* C3 as stated: a row whose price text does not parse appears in no result, neither
\* as best_record nor in all_records.
C3_InvalidPriceExcluded ==
    pc = "aggregated" =>
        \A k \in DOMAIN csv_rows :
            Float(csv_rows[k].current_price) = ValueError =>
                \A g \in DOMAIN best_prices :
                    /\ best_prices[g].best_product # k
                    /\ k \notin Members(g)

\* C4: one result per distinct normalized name of the input; every input record is in
\* the all_records of exactly one result, once; no group is empty; every member of a
\* group normalizes to the key of the group.
C4_GroupsPartitionInput ==
    pc = "aggregated" =>
        /\ Len(best_prices)
              = Cardinality({NameKey(all_products[k].product_name) : k \in DOMAIN all_products})
        /\ \A g, h \in DOMAIN best_prices :
              best_prices[g].key = best_prices[h].key => g = h
        /\ \A k \in DOMAIN all_products :
              Cardinality({gj \in (DOMAIN best_prices) \X (1..Len(all_products)) :
                              /\ gj[2] \in DOMAIN best_prices[gj[1]].all_prices
                              /\ best_prices[gj[1]].all_prices[gj[2]] = k}) = 1
        /\ \A g \in DOMAIN best_prices :
              /\ best_prices[g].all_prices # <<>>
              /\ Members(g) = Sharing(best_prices[g].key)

C4_Witness ==
    /\ pc = "aggregated"
    /\ Len(all_products) = 3
    /\ Len(best_prices) = 2
    /\ \E k, m \in DOMAIN all_products :
         /\ all_products[k].product_name # all_products[m].product_name
         /\ NameKey(all_products[k].product_name) = NameKey(all_products[m].product_name)

\* C5: the results come in the order in which their keys first occur in the input,
\* and all_records lists the members of a group in input order.
C5_EncounterOrder ==
    pc = "aggregated" =>
        /\ \A g, h \in DOMAIN best_prices :
              g < h =>
                 \E k \in Sharing(best_prices[g].key) :
                    \A m \in Sharing(best_prices[h].key) : k < m
        /\ \A g \in DOMAIN best_prices :
              \A i, j \in DOMAIN best_prices[g].all_prices :
                 i < j => best_prices[g].all_prices[i] < best_prices[g].all_prices[j]

C5_Witness ==
    /\ pc = "aggregated"
    /\ Len(best_prices) = 2
    /\ best_prices[1].all_prices = <<1, 3>>
    /\ best_prices[2].all_prices = <<2>>

\* C19: in every group with at least one record priced above 0, the price of
\* best_record is the minimum of the price range, whatever other records the group holds.
C19_BestEqualsRangeMin ==
    pc = "aggregated" =>
        \A g \in DOMAIN best_prices :
            (\E k \in Members(g) : Price(k) > 0) =>
                Price(best_prices[g].best_product) = best_prices[g].price_range.min

(***************************************************************************)
(* GroceryDataExtractor.extract_all_data and data_extractor.main           *)
(*                                                                         *)
(* One run of the collector over the configured retailers.  A retailer's   *)
(* fetch either raises or yields a list of Products; writing a file may    *)
(* raise OSError, which is the fatal error of the run.                     *)
(***************************************************************************)

\* The keys of self.retailers, in the order of the dict, and their display names.
RetailerKeys  == <<"checkers", "pick_n_pay", "woolworths", "shoprite", "spar">>
RetailerNames == <<"Checkers", "Pick n Pay", "Woolworths", "Shoprite", "SPAR">>

\* A file system: the files that exist, each with its content.
NoFiles == [k \in {} |-> <<>>]
Exists(files, key) == key \in DOMAIN files
WriteFile(files, key, content) ==
    [k \in (DOMAIN files) \cup {key} |-> IF k = key THEN content ELSE files[k]]

\* Products as simulate_retailer_data builds them for retailer r, and one whose
\* price never parsed.
Bread(r) == [ product_name |-> <<"B","a">>, current_price |-> FloatOf(1999),
              retailer |-> RetailerNames[r], availability_status |-> "in_stock" ]
Milk(r)  == [ product_name |-> <<"M","i">>, current_price |-> FloatOf(2499),
              retailer |-> RetailerNames[r], availability_status |-> "low_stock" ]
Unpriced(r) == [ product_name |-> <<"M","i">>, current_price |-> NoValue,
                 retailer |-> RetailerNames[r], availability_status |-> "in_stock" ]

\* What awaiting simulate_retailer_data can do for retailer r: raise, or return a list.
Fetches(r) ==
    { [ok |-> FALSE, products |-> <<>>],
      [ok |-> TRUE,  products |-> <<Bread(r)>>],
      [ok |-> TRUE,  products |-> <<Bread(r), Milk(r)>>],
      [ok |-> TRUE,  products |-> <<Bread(r), Unpriced(r)>>] }

\* The method without its try/except: the exception of the fetch leaves it.
scrape_propagating(fetch) ==
    [raised |-> ~fetch.ok, products |-> IF fetch.ok THEN fetch.products ELSE <<>>]

\* scrape_retailer_products: the fetch runs inside try/except Exception, and the
\* list returned holds what was fetched before the exception, which is nothing.
scrape_retailer_products(fetch) ==
    [raised |-> FALSE, products |-> IF fetch.ok THEN fetch.products ELSE <<>>]

\* The batch taken whenever it is not empty, validated or not.
Accepted_unvalidated(batch) == batch # <<>>

\* `if products:` and then `if is_valid:`: the batch is saved and merged.
Accepted(batch) == batch # <<>> /\ validate_data_integrity(batch).is_valid

\* `if products:` and then `else:`: the errors of the batch are written.
Rejected(batch) == batch # <<>> /\ ~Accepted(batch)

\* The file name without the date: one price file per retailer.
PriceFileKey_undated(r, date) == <<r, 1>>

\* data_dir / retailer_key / f"{timestamp}_prices.csv"
PriceFileKey(r, date) == <<r, date>>

\* save_to_csv: open(filepath, 'w') and one row per product.
save_to_csv(files, batch, r, date) == WriteFile(files, PriceFileKey(r, date), batch)

\* What a save that raises can leave: the files as they were (open failed), or the
\* file of the day cut after fewer rows than the batch has.
FailedSaves(files, batch, r, date) ==
    {files} \cup {WriteFile(files, PriceFileKey(r, date), SubSeq(batch, 1, n)) :
                     n \in 0..(Len(batch) - 1)}

\* The finally clause left out: the session stays as it is.
close_session_skipped(s) == s

\* close_session, as the finally clause of extract_all_data runs it.
close_session(s) == IF s = "open" THEN "closed" ELSE s

InitCollect ==
    /\ pc = "start"
    /\ session = "none" /\ retailer_idx = 1 /\ extracted = <<>> /\ scraped = <<>>
    /\ error_files = NoFiles /\ raised = "none" /\ exit_code = Pending
    /\ price_files = NoFiles /\ today = 1 /\ saves = 0
    /\ IdleAvail /\ IdlePrice /\ IdleValid /\ IdleAgg
    /\ IdleAdapter /\ IdleRate /\ IdlePipe

\* await self.create_session(), before the try block.
CreateSession ==
    /\ pc = "start"
    /\ session' = "open"
    /\ pc' = "loop"
    /\ UNCHANGED <<retailer_idx, extracted, scraped, error_files, raised, exit_code>>
    /\ UNCHANGED <<fnVars, aggVars, adapterVars, fileVars, rateVars, pipeVars>>

\* create_session raises: nothing was opened and nothing catches the exception.
CreateSessionFails ==
    /\ pc = "start"
    /\ raised' = "create_session"
    /\ pc' = "raised"
    /\ UNCHANGED <<session, retailer_idx, extracted, scraped, error_files, exit_code>>
    /\ UNCHANGED <<fnVars, aggVars, adapterVars, fileVars, rateVars, pipeVars>>

\* The except and finally clauses of extract_all_data for an exception of `step`.
Abort(step) ==
    /\ raised' = step
    /\ session' = close_session(session)
    /\ pc' = "raised"
    /\ UNCHANGED <<retailer_idx, extracted, scraped, exit_code>>

\* One pass of the loop for the retailer at retailer_idx, every write succeeding.
ProcessRetailer ==
    /\ pc = "loop"
    /\ retailer_idx <= Len(RetailerKeys)
    /\ \E fetch \in Fetches(retailer_idx) :
         LET got   == scrape_retailer_products(fetch)
             batch == got.products
         IN  IF got.raised
             THEN Abort("scrape") /\ UNCHANGED <<error_files, price_files>>
             ELSE /\ scraped' = Append(scraped, [failed |-> ~fetch.ok, products |-> batch])
                  /\ extracted' = IF Accepted(batch) THEN extracted \o batch ELSE extracted
                  /\ price_files' = IF Accepted(batch)
                                    THEN save_to_csv(price_files, batch, retailer_idx, today)
                                    ELSE price_files
                  /\ error_files' = IF Rejected(batch)
                                    THEN WriteFile(error_files, <<retailer_idx, today>>,
                                                   validate_data_integrity(batch).errors)
                                    ELSE error_files
                  /\ retailer_idx' = retailer_idx + 1
                  /\ UNCHANGED <<pc, session, raised, exit_code>>
    /\ UNCHANGED <<today, saves>>
    /\ UNCHANGED <<fnVars, aggVars, adapterVars, rateVars, pipeVars>>

\* The same pass when the write of the price file or of the error file raises.
ProcessRetailerFails ==
    /\ pc = "loop"
    /\ retailer_idx <= Len(RetailerKeys)
    /\ \E fetch \in Fetches(retailer_idx) :
         LET batch == scrape_retailer_products(fetch).products
         IN  \/ /\ Accepted(batch)
                /\ price_files' \in FailedSaves(price_files, batch, retailer_idx, today)
                /\ Abort("save_to_csv")
                /\ UNCHANGED error_files
             \/ /\ Rejected(batch)
                /\ Abort("error_file")
                /\ UNCHANGED <<error_files, price_files>>
    /\ UNCHANGED <<today, saves>>
    /\ UNCHANGED <<fnVars, aggVars, adapterVars, rateVars, pipeVars>>

\* After the loop: generate_summary_report, then the finally clause, then return.
FinishExtraction ==
    /\ pc = "loop"
    /\ retailer_idx > Len(RetailerKeys)
    /\ session' = close_session(session)
    /\ pc' = "returned"
    /\ UNCHANGED <<retailer_idx, extracted, scraped, error_files, raised, exit_code>>
    /\ UNCHANGED <<fnVars, aggVars, adapterVars, fileVars, rateVars, pipeVars>>

\* generate_summary_report raises while it writes the summary file.
SummaryFails ==
    /\ pc = "loop"
    /\ retailer_idx > Len(RetailerKeys)
    /\ Abort("summary")
    /\ UNCHANGED error_files
    /\ UNCHANGED <<fnVars, aggVars, adapterVars, fileVars, rateVars, pipeVars>>

\* data_extractor.main: 1 from its except clause, 0 at its end.
MainReturns ==
    /\ pc \in {"returned", "raised"}
    /\ exit_code' = Returned(IF pc = "raised" THEN 1 ELSE 0)
    /\ pc' = "exited"
    /\ UNCHANGED <<session, retailer_idx, extracted, scraped, error_files, raised>>
    /\ UNCHANGED <<fnVars, aggVars, adapterVars, fileVars, rateVars, pipeVars>>

NextCollect ==
    \/ CreateSession
    \/ CreateSessionFails
    \/ ProcessRetailer
    \/ ProcessRetailerFails
    \/ FinishExtraction
    \/ SummaryFails
    \/ MainReturns

SpecCollect == InitCollect /\ [][NextCollect]_vars

(***************************************************************************)
(* Claims about the collector run                                          *)
(***************************************************************************)

\* The four checks of the validator, on every product of the batch.
PassesValidation(batch) ==
    \A k \in DOMAIN batch :
        /\ NameOk(batch[k]) /\ PriceOk(batch[k])
        /\ RetailerOk(batch[k]) /\ StatusOk(batch[k])

FailsValidation(batch) == batch # <<>> /\ ~PassesValidation(batch)

\* The batches of the history that pass validation, concatenated in retailer order.
RECURSIVE MergedFrom(_)
MergedFrom(history) ==
    IF history = <<>> THEN <<>>
    ELSE (IF PassesValidation(Head(history).products)
          THEN Head(history).products ELSE <<>>) \o MergedFrom(Tail(history))

\* No record of retailer r is in the merged result.
NothingMergedFrom(r) ==
    \A k \in DOMAIN extracted : extracted[k].retailer # RetailerNames[r]

Processed(r) == r \in DOMAIN scraped

\* C11: a retailer whose batch fails validation has none of its records in the merged
\* result and no price file, its errors are in its error file, and the run goes on: the
\* merged result is always the concatenation of the batches that passed, and a run that
\* returns has processed every retailer.
C11_FailedBatchIsolated ==
    /\ \A r \in DOMAIN scraped :
           FailsValidation(scraped[r].products) =>
               /\ NothingMergedFrom(r)
               /\ ~Exists(price_files, <<r, today>>)
               /\ Exists(error_files, <<r, today>>)
               /\ error_files[<<r, today>>] # <<>>
               /\ error_files[<<r, today>>] = validate_data_integrity(scraped[r].products).errors
    /\ extracted = MergedFrom(scraped)
    /\ pc = "returned" => Len(scraped) = Len(RetailerKeys)

\* A run that returned, in which the first retailer failed validation and a later one
\* passed and was merged.
C11_Witness ==
    /\ pc = "returned"
    /\ FailsValidation(scraped[1].products)
    /\ \E r \in 2..Len(scraped) :
           /\ scraped[r].products # <<>>
           /\ PassesValidation(scraped[r].products)
           /\ ~NothingMergedFrom(r)

\* C12: a fetch that raises is caught inside scrape_retailer_products: the retailer
\* contributes nothing (no record, no file), the exception is never the one that ends
\* extract_all_data, and every other retailer is fetched, validated, saved and merged.
C12_FetchFailureContained ==
    /\ raised # "scrape"
    /\ \A r \in DOMAIN scraped :
           scraped[r].failed =>
               /\ scraped[r].products = <<>>
               /\ NothingMergedFrom(r)
               /\ ~Exists(price_files, <<r, today>>)
               /\ ~Exists(error_files, <<r, today>>)
    /\ \A r \in DOMAIN scraped :
           (scraped[r].products # <<>> /\ PassesValidation(scraped[r].products)) =>
               /\ Exists(price_files, <<r, today>>)
               /\ price_files[<<r, today>>] = scraped[r].products
    /\ pc = "returned" =>
           /\ Len(scraped) = Len(RetailerKeys)
           /\ extracted = MergedFrom(scraped)

\* A run that returned although the fetch of the second retailer raised, with the
\* retailers before and after it merged.
C12_Witness ==
    /\ pc = "returned"
    /\ scraped[2].failed
    /\ ~NothingMergedFrom(1)
    /\ ~NothingMergedFrom(3)
    /\ raised = "none"

\* C13: the collector returns 0 exactly when data was merged and no fatal error
\* occurred, and 1 when nothing valid could be merged or a fatal error occurred.
C13_ExitStatus ==
    pc = "exited" =>
        /\ (raised = "none" /\ extracted # <<>>) => exit_code = Returned(0)
        /\ (raised # "none" \/ extracted = <<>>) => exit_code = Returned(1)

\* C16: when extract_all_data has ended, by return or by an exception, no session is
\* left open; a fatal error is the end of the run (it reaches main, which returns 1)
\* and the retailers after the failing one are never touched.
C16_SessionClosedOnExit ==
    /\ pc \in {"returned", "raised", "exited"} => session # "open"
    /\ raised # "none" => pc \in {"raised", "exited"}
    /\ (pc = "exited" /\ raised # "none") => exit_code = Returned(1)
    /\ raised \in {"save_to_csv", "error_file"} =>
           /\ Len(scraped) = retailer_idx - 1
           /\ \A r \in (retailer_idx + 1)..Len(RetailerKeys) :
                  /\ ~Exists(price_files, <<r, today>>)
                  /\ ~Exists(error_files, <<r, today>>)

\* The write of the second retailer's price file raised: the session that was opened
\* is closed and three retailers are left unprocessed.
C16_Witness ==
    /\ pc = "raised"
    /\ raised = "save_to_csv"
    /\ session = "closed"
    /\ retailer_idx = 2
    /\ Len(scraped) = 1

(***************************************************************************)
(* The price files over several days                                       *)
(*                                                                         *)
(* Every collector run is a sequence of save_to_csv calls, each reading    *)
(* the date from datetime.now(); the date does not go back.                *)
(***************************************************************************)

\* Calls of save_to_csv followed, and days the clock can reach.
MaxSaves == 3
MaxDate  == 2

\* The batches a run hands to save_to_csv for retailer r: validated, not empty.
ValidBatches(r) == { <<Bread(r)>>, <<Bread(r), Milk(r)>> }

InitFiles ==
    /\ pc = "files"
    /\ price_files = NoFiles /\ today = 1 /\ saves = 0
    /\ IdleAvail /\ IdlePrice /\ IdleValid /\ IdleAgg
    /\ IdleAdapter /\ IdleCollect /\ IdleRate /\ IdlePipe

\* save_to_csv(products, retailer_key) returning normally.
SaveToCsv ==
    /\ pc = "files"
    /\ saves < MaxSaves
    /\ \E r \in DOMAIN RetailerKeys : \E batch \in ValidBatches(r) :
           price_files' = save_to_csv(price_files, batch, r, today)
    /\ saves' = saves + 1
    /\ UNCHANGED <<pc, today>>
    /\ UNCHANGED <<fnVars, aggVars, adapterVars, collectVars, rateVars, pipeVars>>

\* save_to_csv raising at open or between two rows.
SaveToCsvFails ==
    /\ pc = "files"
    /\ saves < MaxSaves
    /\ \E r \in DOMAIN RetailerKeys : \E batch \in ValidBatches(r) :
           price_files' \in FailedSaves(price_files, batch, r, today)
    /\ saves' = saves + 1
    /\ UNCHANGED <<pc, today>>
    /\ UNCHANGED <<fnVars, aggVars, adapterVars, collectVars, rateVars, pipeVars>>

\* Midnight passes, between two runs or between two saves of one run.
NextDay ==
    /\ pc = "files"
    /\ today < MaxDate
    /\ today' = today + 1
    /\ UNCHANGED <<pc, price_files, saves>>
    /\ UNCHANGED <<fnVars, aggVars, adapterVars, collectVars, rateVars, pipeVars>>

NextFiles == SaveToCsv \/ SaveToCsvFails \/ NextDay

SpecFiles == InitFiles /\ [][NextFiles]_vars

\* C14: no step deletes a price file, and a step leaves every price file keyed by a
\* date other than the current one as it was: only the file of the current date can be
\* created or overwritten.
C14_EarlierDatesUntouched ==
    [][ /\ \A key \in DOMAIN price_files : key \in DOMAIN price_files'
        /\ \A key \in DOMAIN price_files' :
               key[2] # today =>
                   /\ key \in DOMAIN price_files
                   /\ price_files'[key] = price_files[key] ]_vars

\* The first retailer has a file of day 1 and, written on day 2, a different file of
\* day 2.
C14_Witness ==
    /\ today = 2
    /\ Exists(price_files, <<1, 1>>)
    /\ Exists(price_files, <<1, 2>>)
    /\ price_files[<<1, 1>>] = <<Bread(1)>>
    /\ price_files[<<1, 2>>] = <<Bread(1), Milk(1)>>

(***************************************************************************)
(* RateLimiter.wait_if_needed and the fetches it releases                  *)
(*                                                                         *)
(* Time is in whole seconds.  simulate_retailer_data awaits nothing after  *)
(* wait_if_needed, so on this clock a fetch ends when it starts.           *)
(***************************************************************************)

\* RateLimiter(0.5): requests_per_second as numerator and denominator.
RequestsPerSecond == <<1, 2>>

\* min_interval = 1.0 / self.requests_per_second
MinInterval == RequestsPerSecond[2] \div RequestsPerSecond[1]

\* await asyncio.sleep(2), between two retailers of the collector's loop.
PauseSeconds == 2

\* Seconds by which a sleep, or the work between two calls, runs over; and the longest
\* time after which a caller other than the loop comes back for the next retailer.
MaxLag == 1
MaxGap == 1

\* A limiter that never waits.
WaitTime_none(current_time, last) == 0

\* wait_time, or 0 when the branch is not taken.
WaitTime(current_time, last) ==
    IF current_time - last < MinInterval
    THEN MinInterval - (current_time - last)
    ELSE 0

\* The epoch is long past: the clock reads more than min_interval at the first call.
InitRate ==
    /\ pc = "rate_wait"
    /\ now \in MinInterval..(MinInterval + MaxGap)
    /\ last_request_time = 0 /\ slept = 0 /\ fetch_start = 0 /\ fetch_end = 0
    /\ session = "none" /\ retailer_idx = 1 /\ extracted = <<>> /\ scraped = <<>>
    /\ error_files = <<>> /\ raised = "none" /\ exit_code = Pending
    /\ IdleAvail /\ IdlePrice /\ IdleValid /\ IdleAgg
    /\ IdleAdapter /\ IdleFiles /\ IdlePipe

\* wait_if_needed up to its if statement: the time to sleep is decided.
WaitIfNeeded ==
    /\ pc = "rate_wait"
    /\ slept' = WaitTime(now, last_request_time)
    /\ pc' = "rate_sleep"
    /\ UNCHANGED <<now, last_request_time, fetch_start, fetch_end>>
    /\ UNCHANGED <<fnVars, aggVars, adapterVars, collectVars, fileVars, pipeVars>>

\* The sleep, if any, then self.last_request_time = time.time(); the fetch starts.
WaitReturns ==
    /\ pc = "rate_sleep"
    /\ \E lag \in 0..MaxLag :
           /\ now' = now + slept + (IF slept > 0 THEN lag ELSE 0)
           /\ last_request_time' = now'
           /\ fetch_start' = now'
    /\ pc' = "rate_fetch"
    /\ UNCHANGED <<slept, fetch_end>>
    /\ UNCHANGED <<fnVars, aggVars, adapterVars, collectVars, fileVars, pipeVars>>

\* The rest of simulate_retailer_data: the products are built without an await.
Fetch ==
    /\ pc = "rate_fetch"
    /\ fetch_end' = now
    /\ pc' = IF retailer_idx = Len(RetailerKeys) THEN "rate_done" ELSE "rate_gap"
    /\ UNCHANGED <<now, last_request_time, slept, fetch_start>>
    /\ UNCHANGED <<fnVars, aggVars, adapterVars, collectVars, fileVars, pipeVars>>

\* The collector's loop: validation, the files, the pause, then the next retailer.
LoopPause ==
    /\ pc = "rate_gap"
    /\ \E lag \in 0..MaxLag : now' = now + PauseSeconds + lag
    /\ retailer_idx' = retailer_idx + 1
    /\ pc' = "rate_wait"
    /\ UNCHANGED <<last_request_time, slept, fetch_start, fetch_end>>
    /\ UNCHANGED <<session, extracted, scraped, error_files, raised, exit_code>>
    /\ UNCHANGED <<fnVars, aggVars, adapterVars, fileVars, pipeVars>>

\* scrape_retailer_products called for the next retailer without the loop's pause.
DirectCall ==
    /\ pc = "rate_gap"
    /\ \E gap \in 0..MaxGap : now' = now + gap
    /\ retailer_idx' = retailer_idx + 1
    /\ pc' = "rate_wait"
    /\ UNCHANGED <<last_request_time, slept, fetch_start, fetch_end>>
    /\ UNCHANGED <<session, extracted, scraped, error_files, raised, exit_code>>
    /\ UNCHANGED <<fnVars, aggVars, adapterVars, fileVars, pipeVars>>

NextRate == WaitIfNeeded \/ WaitReturns \/ Fetch \/ LoopPause \/ DirectCall

SpecRate == InitRate /\ [][NextRate]_vars

\* The larger of two integers.
Larger(a, b) == IF a >= b THEN a ELSE b

MockProductLimit == 20
TopDeals == 10

\* str(n) for a natural number.
RECURSIVE DecimalText(_)
DecimalText(n) ==
    IF n < 10 THEN <<Digits[n + 1]>>
    ELSE DecimalText(n \div 10) \o <<Digits[(n % 10) + 1]>>

\* str(x) for a float of at most two decimals, as csv.DictWriter writes the price.
FloatText(cents) ==
    DecimalText(cents \div 100) \o <<".">>
    \o (IF cents % 10 = 0 THEN <<Digits[((cents % 100) \div 10) + 1]>>
        ELSE <<Digits[((cents % 100) \div 10) + 1], Digits[(cents % 10) + 1]>>)

\* items[:n]
FirstItems(items, n) == SubSeq(items, 1, IF Len(items) < n THEN Len(items) ELSE n)

\* retailer_mapping.get(product['retailer'], 'unknown')
retailer_mapping(name) ==
    CASE name = "Checkers"   -> "checkers"
      [] name = "Pick n Pay" -> "pick-n-pay"
      [] name = "Woolworths" -> "woolworths"
      [] name = "Shoprite"   -> "shoprite"
      [] name = "SPAR"       -> "spar"
      [] OTHER               -> "unknown"

\* availability_status.replace('_', '-'), on the values of the status column.
Hyphenated(status) ==
    CASE status = "in_stock"     -> "in-stock"
      [] status = "low_stock"    -> "low-stock"
      [] status = "out_of_stock" -> "out-of-stock"
      [] OTHER                   -> status

\* The product counter left as it is at the end of a pass.
NextProductId_stuck(product_id) == product_id

\* product_id += 1
NextProductId(product_id) == product_id + 1

\* product_entry of one item of best_prices.
ProductEntry(ap, item, product_id) ==
    [ id |-> DecimalText(product_id), name |-> ap[item.best_product].product_name ]

\* price_entry for the record at position n of all_products.
PriceEntry(ap, n, product_id, price_id) ==
    [ id           |-> DecimalText(product_id) \o <<"-">> \o DecimalText(price_id),
      productId    |-> DecimalText(product_id),
      retailer     |-> [id |-> retailer_mapping(ap[n].retailer), name |-> ap[n].retailer],
      price        |-> ap[n].current_price,
      onSale       |-> FALSE,
      availability |-> Hyphenated(ap[n].availability_status) ]

\* The inner loop over price_data['all_prices'], price_id counting on from its value.
PriceEntries(ap, item, product_id, price_id) ==
    [j \in DOMAIN item.all_prices |->
        PriceEntry(ap, item.all_prices[j], product_id, price_id + j - 1)]

\* The outer loop from item g on, with the two counters and the two lists so far.
\* (Before pass g the lists hold g - 1 products and price_id - 1 prices: the second
\* test never decides, it has the lists of a pass evaluated when the pass ends.)
RECURSIVE MockLoop(_, _, _, _, _, _)
MockLoop(ap, items, g, product_id, price_id, acc) ==
    IF g > Len(items) \/ Len(acc.products) + Len(acc.prices) - price_id >= g THEN acc
    ELSE MockLoop(ap, items, g + 1,
                  NextProductId(product_id),
                  price_id + Len(items[g].all_prices),
                  [ products |-> Append(acc.products, ProductEntry(ap, items[g], product_id)),
                    prices   |-> acc.prices
                                 \o PriceEntries(ap, items[g], product_id, price_id) ])

\* What generate_mock_data_update returns (lastUpdated and avgSavings left out).
generate_mock_data_update(ap, bp) ==
    LET out == MockLoop(ap, FirstItems(bp, MockProductLimit), 1, 1, 1,
                        [products |-> <<>>, prices |-> <<>>])
    IN  [ products |-> out.products,
          prices   |-> out.prices,
          summary  |-> [ totalProducts |-> Len(out.products),
                         totalPrices   |-> Len(out.prices) ] ]

\* One step of a stable sort on savings, largest first: item g goes behind every item
\* already placed whose savings are not smaller.
InsertDeal(bp, placed, g) ==
    LET ahead == Cardinality({k \in DOMAIN placed : bp[placed[k]].savings >= bp[g].savings})
    IN  SubSeq(placed, 1, ahead) \o <<g>> \o SubSeq(placed, ahead + 1, Len(placed))

\* (Before item g is placed g - 1 items are: the second test never decides.)
RECURSIVE SortFrom(_, _, _)
SortFrom(bp, g, placed) ==
    IF g > Len(bp) \/ Len(placed) >= g THEN placed
    ELSE SortFrom(bp, g + 1, InsertDeal(bp, placed, g))

\* The items left in insertion order.
sorted_deals_unsorted(bp) == [g \in DOMAIN bp |-> g]

\* sorted(best_prices.items(), key=savings, reverse=True), as positions in best_prices.
sorted_deals(bp) == SortFrom(bp, 1, <<>>)

\* One entry of report["best_deals"].
DealEntry(ap, item) ==
    [ product       |-> item.key,
      best_price    |-> ap[item.best_product].current_price,
      best_retailer |-> ap[item.best_product].retailer,
      savings       |-> item.savings,
      price_range   |-> item.price_range ]

\* The report generate_integration_report builds (the date left out).
generate_integration_report(ap, bp, updated) ==
    LET top  == FirstItems(sorted_deals(bp), TopDeals)
        kept == SelectSeq(top, LAMBDA g : bp[g].savings > 0)
    IN  [ summary    |-> updated.summary,
          best_deals |-> [k \in DOMAIN kept |-> DealEntry(ap, bp[kept[k]])] ]

\* Largest number of products in a wide assortment (most products at one retailer
\* only) and in a deep one (every product at two retailers).
MaxGroups == 21
MaxDeals  == 12

\* The assortments drawn: how many retailers carry product g (in the order of
\* RetailerNames), what each asks for it, and whether one price column is blank.
Shapes      == {"wide", "deep"}
SizeShifts  == 0..2
PriceShifts == 0..2
LargestOf(shape) == IF shape = "wide" THEN MaxGroups ELSE MaxDeals
CarriedBy(g, shape, a) ==
    IF shape = "deep" \/ (g + a) % 7 = 0 THEN 2 ELSE 1
ShelfPrice(g, r, b) == 1000 + 50 * ((g * (r + b)) % 9)
ShelfName(g) == <<"P">> \o DecimalText(g)

\* The row of product g in the price file of retailer r.
ShelfRow(g, r, b, blank) ==
    [ product_name        |-> ShelfName(g),
      current_price       |-> IF blank /\ g = 2 /\ r = 1 THEN <<>>
                              ELSE FloatText(ShelfPrice(g, r, b)),
      retailer            |-> RetailerNames[r],
      availability_status |-> IF (g + r) % 4 = 0 THEN "low_stock" ELSE "in_stock" ]

\* The rows integrate_data loads: the file of each retailer in turn, each file with
\* the products the retailer carries.
ShelfRows(n, shape, a, b, blank) ==
    LET cells == [k \in 1..(2 * n) |-> <<((k - 1) \div n) + 1, ((k - 1) % n) + 1>>]
        kept  == SelectSeq(cells, LAMBDA c : c[1] <= CarriedBy(c[2], shape, a))
    IN  [k \in DOMAIN kept |-> ShelfRow(kept[k][2], kept[k][1], b, blank)]

InitAdapter ==
    /\ pc = "start"
    /\ \E shape \in Shapes : \E n \in 0..LargestOf(shape) :
           \E a \in SizeShifts : \E b \in PriceShifts : \E blank \in BOOLEAN :
               csv_rows = ShelfRows(n, shape, a, b, blank)
    /\ all_products = <<>>
    /\ best_prices = <<>>
    /\ IdleAvail /\ IdlePrice /\ IdleValid
    /\ IdleAdapter /\ IdleCollect /\ IdleFiles /\ IdleRate /\ IdlePipe

GenerateMockDataUpdate ==
    /\ pc = "aggregated"
    /\ updated_data' = generate_mock_data_update(all_products, best_prices)
    /\ pc' = "adapted"
    /\ UNCHANGED report
    /\ UNCHANGED <<fnVars, aggVars, collectVars, fileVars, rateVars, pipeVars>>

\* update_mock_data_file: False when src/data/mockData.ts is missing or the write
\* raises, and then integrate_data writes no report.
UpdateMockDataFile ==
    /\ pc = "adapted"
    /\ \E success \in BOOLEAN : pc' = IF success THEN "updated" ELSE "update_failed"
    /\ UNCHANGED <<fnVars, aggVars, adapterVars, collectVars, fileVars, rateVars, pipeVars>>

GenerateIntegrationReport ==
    /\ pc = "updated"
    /\ report' = generate_integration_report(all_products, best_prices, updated_data)
    /\ pc' = "reported"
    /\ UNCHANGED updated_data
    /\ UNCHANGED <<fnVars, aggVars, collectVars, fileVars, rateVars, pipeVars>>

NextAdapter ==
    \/ LoadCsvData
    \/ FindBestPrices
    \/ GenerateMockDataUpdate
    \/ UpdateMockDataFile
    \/ GenerateIntegrationReport

SpecAdapter == InitAdapter /\ [][NextAdapter]_vars

\* The number of price entries emitted for the items before item g.
RECURSIVE EntriesBefore(_)
EntriesBefore(g) ==
    IF g = 1 THEN 0 ELSE EntriesBefore(g - 1) + Len(best_prices[g - 1].all_prices)

Smaller(a, b) == IF a <= b THEN a ELSE b

\* C17: the product entries are numbered "1", "2", ..., "n" in the order of best_prices,
\* n being the smaller of 20 and the number of results; every record of an emitted
\* group has exactly one price entry, in order, whose productId is the id of the
\* group's product entry; and no two price entries share an id.
C17_MockDataIds ==
    pc \in {"adapted", "updated", "update_failed", "reported"} =>
        LET n      == Smaller(MockProductLimit, Len(best_prices))
            ups    == updated_data.products
            prices == updated_data.prices
        IN  /\ Len(ups) = n
            /\ \A g \in 1..n :
                   /\ ups[g].id = DecimalText(g)
                   /\ ups[g].name = all_products[best_prices[g].best_product].product_name
            /\ Len(prices) = EntriesBefore(n + 1)
            /\ \A g \in 1..n : \A j \in DOMAIN best_prices[g].all_prices :
                   LET entry  == prices[EntriesBefore(g) + j]
                       record == all_products[best_prices[g].all_prices[j]]
                   IN  /\ entry.productId = ups[g].id
                       /\ entry.price = record.current_price
                       /\ entry.retailer.name = record.retailer
            /\ \A k \in DOMAIN prices : \A m \in DOMAIN prices :
                   prices[k].id = prices[m].id => k = m

\* More than 20 results: 20 product entries, more price entries than that, and the
\* twentieth product has the id "20".
C17_Witness ==
    /\ pc = "adapted"
    /\ Len(best_prices) > MockProductLimit
    /\ Len(updated_data.products) = MockProductLimit
    /\ Len(updated_data.prices) > MockProductLimit
    /\ updated_data.products[MockProductLimit].id = <<"2", "0">>

Listed(g) == \E k \in DOMAIN report.best_deals : report.best_deals[k].product = best_prices[g].key

\* C18: best_deals has at most 10 entries, in non-increasing order of savings, each of
\* a different group with savings > 0 and with that group's best price, best retailer,
\* savings and price range; no group left out has greater savings than a listed one,
\* and a group with savings > 0 is left out only when the list is full.
C18_TopDeals ==
    pc = "reported" =>
        LET deals == report.best_deals
        IN  /\ Len(deals) <= TopDeals
            /\ \A k \in DOMAIN deals : \A m \in DOMAIN deals :
                   /\ k < m => deals[k].savings >= deals[m].savings
                   /\ deals[k].product = deals[m].product => k = m
            /\ \A k \in DOMAIN deals :
                   /\ deals[k].savings > 0
                   /\ \E g \in DOMAIN best_prices :
                          /\ best_prices[g].key = deals[k].product
                          /\ deals[k].best_price =
                                 all_products[best_prices[g].best_product].current_price
                          /\ deals[k].best_retailer =
                                 all_products[best_prices[g].best_product].retailer
                          /\ deals[k].savings = best_prices[g].savings
                          /\ deals[k].price_range = best_prices[g].price_range
            /\ \A g \in DOMAIN best_prices :
                   ~Listed(g) =>
                       /\ \A k \in DOMAIN deals : best_prices[g].savings <= deals[k].savings
                       /\ best_prices[g].savings > 0 => Len(deals) = TopDeals

\* A full list of ten deals of unequal savings, a group with savings left out of it,
\* and a listed group that comes later in best_prices than one left out.
C18_Witness ==
    /\ pc = "reported"
    /\ Len(report.best_deals) = TopDeals
    /\ report.best_deals[1].savings > report.best_deals[TopDeals].savings
    /\ \E g \in DOMAIN best_prices : ~Listed(g) /\ best_prices[g].savings > 0
    /\ \E g \in DOMAIN best_prices : \E h \in DOMAIN best_prices :
           g < h /\ ~Listed(g) /\ Listed(h)

(***************************************************************************)
(* run_complete_pipeline                                                   *)
(*                                                                         *)
(* The collector run of SpecCollect, then the aggregator on the price      *)
(* files it left, then the verification step.  Of the aggregator only the  *)
(* status is kept here; its results are the subject of SpecAgg and         *)
(* SpecAdapter.                                                            *)
(***************************************************************************)

\* find_latest_csv: the newest price file of retailer r, <<>> when there is none.
find_latest_csv(files, r) ==
    LET dates == {key[2] : key \in {k \in DOMAIN files : k[1] = r}}
    IN  IF dates = {} THEN <<>>
        ELSE << <<r, CHOOSE d \in dates : \A e \in dates : e <= d>> >>

\* The loop of integrate_data over self.retailers, from retailer r on.
RECURSIVE LoadFrom(_, _)
LoadFrom(files, r) ==
    IF r > Len(RetailerKeys) THEN <<>>
    ELSE (IF find_latest_csv(files, r) = <<>> THEN <<>>
          ELSE files[find_latest_csv(files, r)[1]]) \o LoadFrom(files, r + 1)

\* integrate_data: False without products, otherwise what update_mock_data_file says.
integrate_data(files, updated) == LoadFrom(files, 1) # <<>> /\ updated

\* data_integration.main: 0 if integrate_data() is true, 1 if not or if it raised.
integrate_main(files, outcome) ==
    IF outcome # "raised" /\ integrate_data(files, outcome = "updated") THEN 0 ELSE 1

\* A stage status that never stops the pipeline.
Failed_ignored(result) == FALSE

\* `if extraction_result != 0:` and `if integration_result != 0:`
Failed(result) == result # Returned(0)

\* from data_extractor import main, or the call itself, raises: the except clause of
\* the pipeline returns 1.
ExtractionRaises ==
    /\ pc = "start"
    /\ pipeline_result' = Returned(1)
    /\ pc' = "pipeline_done"
    /\ UNCHANGED <<extraction_result, integration_result>>
    /\ UNCHANGED <<fnVars, aggVars, adapterVars, collectVars, fileVars, rateVars>>

\* extraction_result = await extract_main(), and the test on it.
ExtractionReturns ==
    /\ pc = "exited"
    /\ extraction_result' = exit_code
    /\ IF Failed(exit_code)
       THEN pipeline_result' = Returned(1) /\ pc' = "pipeline_done"
       ELSE UNCHANGED pipeline_result /\ pc' = "step2"
    /\ UNCHANGED integration_result
    /\ UNCHANGED <<fnVars, aggVars, adapterVars, collectVars, fileVars, rateVars>>

\* integration_result = integrate_main(), and the test on it.
IntegrationReturns ==
    /\ pc = "step2"
    /\ \E outcome \in {"updated", "not_updated", "raised"} :
           LET status == Returned(integrate_main(price_files, outcome))
           IN  /\ integration_result' = status
               /\ IF Failed(status)
                  THEN pipeline_result' = Returned(1) /\ pc' = "pipeline_done"
                  ELSE UNCHANGED pipeline_result /\ pc' = "step3"
    /\ UNCHANGED extraction_result
    /\ UNCHANGED <<fnVars, aggVars, adapterVars, collectVars, fileVars, rateVars>>

\* from data_integration import main raises: the aggregator never runs.
IntegrationRaises ==
    /\ pc = "step2"
    /\ pipeline_result' = Returned(1)
    /\ pc' = "pipeline_done"
    /\ UNCHANGED <<extraction_result, integration_result>>
    /\ UNCHANGED <<fnVars, aggVars, adapterVars, collectVars, fileVars, rateVars>>

\* Step 3 counts the price files and returns 0, or raises and the pipeline returns 1.
VerifyAndReturn ==
    /\ pc = "step3"
    /\ \E status \in {0, 1} : pipeline_result' = Returned(status)
    /\ pc' = "pipeline_done"
    /\ UNCHANGED <<extraction_result, integration_result>>
    /\ UNCHANGED <<fnVars, aggVars, adapterVars, collectVars, fileVars, rateVars>>

NextPipeline ==
    \/ NextCollect
    \/ ExtractionRaises
    \/ ExtractionReturns
    \/ IntegrationReturns
    \/ IntegrationRaises
    \/ VerifyAndReturn

SpecPipeline == InitCollect /\ [][NextPipeline]_vars

\* C20: the aggregator has a status only if the collector has finished (its session is
\* not open, main has returned) with status 0; if the collector returned another status
\* or raised, the aggregator never gets one; and the pipeline returns 0 only if both
\* stages returned 0.
C20_StagesInSequence ==
    /\ integration_result # Pending =>
           /\ extraction_result = Returned(0)
           /\ exit_code = Returned(0)
           /\ session # "open"
    /\ (pc = "pipeline_done" /\ extraction_result # Returned(0)) =>
           /\ integration_result = Pending
           /\ pipeline_result = Returned(1)
    /\ pipeline_result = Returned(0) =>
           /\ extraction_result = Returned(0)
           /\ integration_result = Returned(0)

\* A pipeline run that returned 0 after both stages did, with data merged and saved.
C20_Witness ==
    /\ pc = "pipeline_done"
    /\ pipeline_result = Returned(0)
    /\ extraction_result = Returned(0)
    /\ integration_result = Returned(0)
    /\ extracted # <<>>

====
